---- MODULE Spec2Model ----
(***************************************************************************)
(* Dispersed city selection (src/city_selector.py).                        *)
(*                                                                         *)
(* select_dispersed_cities: clamp, sort by population, greedy farthest     *)
(* point expansion, optional repair pass post_process_city_selection.      *)
(*                                                                         *)
(* A DataFrame is a sequence of rows; every row carries its index label    *)
(* in the field idx.  Positions (iloc) are 0-based as in the source, so    *)
(* position p is element p + 1 of the sequence.  The field city is the     *)
(* stable identifier of a candidate.                                       *)
(*                                                                         *)
(* Geometry: every candidate of the model lies on the equator, where the   *)
(* haversine formula reduces to R * |dlng| (shorter way round).  Distances *)
(* are kept in whole metres.                                               *)
(***************************************************************************)
EXTENDS Integers, Sequences, FiniteSets, TLC

VARIABLES
    cities_df,              \* argument: the pool, in input order
    n_arg,                  \* argument n_cities as passed by the caller
    min_distance_km,        \* argument
    apply_post_processing,  \* argument
    pc,                     \* position in select_dispersed_cities
    n_cities,               \* local n_cities after the clamp
    valid_cities,           \* pool sorted by population (all_cities of the repair)
    selected_indices,       \* greedy: list of selected positions
    improved_cities,        \* selected_cities / improved_cities
    pp_selected,            \* repair: the set selected_indices
    min_dist,               \* repair: closest distance of the last iteration
    closest_pair,           \* repair: closest pair of the last iteration
    swaps,                  \* number of accepted replacements
    exit,                   \* how the call ended
    call,                   \* 1 in the first call, 2 in a repeated call
    first_return,           \* what the first call returned
    \* --- sentinel_query: is_point_on_land, get_random_point_at_distance
    module_file,            \* which of the two copies of sentinel_query runs
    ne_file,                \* environment: the dataset file ne_110m_land.shp
    LAND_POLYGONS,          \* the module global _LAND_POLYGONS
    provider_reads,         \* how often the dataset file was consulted
    cache_writes,           \* how often _LAND_POLYGONS was assigned
    calls,                  \* calls made so far from outside the module
    last_check,             \* the last call of is_point_on_land and its answer
    spc,                    \* position in get_random_point_at_distance
    sargs,                  \* its arguments
    attempt,                \* its loop variable
    candidates,             \* the points it generated, in order
    answers,                \* the answers of is_point_on_land, in order
    sresult,                \* what it returned
    \* --- sentinel_city_explorer: main
    explorer_file,          \* which of the two copies of the explorer runs
    epc,                    \* position in main
    selected_cities,        \* the anchors select_dispersed_cities returned
    anchor,                 \* position of the loop over selected_cities
    cities_results,         \* the list cities_results
    random_point_result,    \* the local random_point_result
    city_polygon,           \* the local city_polygon, when there is one
    fp_attempt,             \* the loop variable "attempt" of the footprint loop
    sampler_calls,          \* per anchor: calls of get_random_point_at_distance
    skipped_random_points,  \* the counter skipped_random_points
    random_points_on_land,  \* the counter random_points_on_land
    random_points_in_water, \* the counter random_points_in_water
    companions,             \* the companion points queried, in order
    \* --- sentinel_query: query_sentinel2_by_coordinates
    qpc,                    \* position in query_sentinel2_by_coordinates
    quarter,                \* position of the loop over quarters
    retry,                  \* the loop variable retry
    status_code,            \* response.status_code of the last request
    requests_sent,          \* per quarter: catalogue requests sent
    events                  \* requests and token refreshes of this quarter

selector_vars ==
    << cities_df, n_arg, min_distance_km, apply_post_processing, pc,
       n_cities, valid_cities, selected_indices, improved_cities,
       pp_selected, min_dist, closest_pair, swaps, exit, call,
       first_return >>

land_vars ==
    << module_file, ne_file, LAND_POLYGONS, provider_reads, cache_writes,
       calls, last_check, spc, sargs, attempt, candidates, answers, sresult >>

explorer_vars ==
    << explorer_file, epc, selected_cities, anchor, cities_results,
       random_point_result, city_polygon, fp_attempt, sampler_calls,
       skipped_random_points, random_points_on_land, random_points_in_water,
       companions >>

query_vars == << qpc, quarter, retry, status_code, requests_sent, events >>

vars == << selector_vars, land_vars, explorer_vars, query_vars >>

\* _LAND_POLYGONS = None (line 21)
NoPolygons == [loaded |-> FALSE, rows |-> << >>]

\* no call of is_point_on_land yet
NoCheck == [made |-> FALSE, lat |-> 0, lon |-> 0, answer |-> FALSE,
            raised |-> FALSE]

NoArgs == [lat |-> 0, lon |-> 0, distance_m |-> 0, ensure_on_land |-> FALSE,
           max_attempts |-> 0]

\* the return value None of get_random_point_at_distance
NoPoint == [none |-> TRUE, lat |-> 0, lon |-> 0, is_on_land |-> FALSE]

\* the sentinel_query module has been imported and nothing has called it
LandUnused ==
    /\ module_file = "src/sentinel_query.py"
    /\ ne_file = [state |-> "missing", rows |-> << >>]
    /\ LAND_POLYGONS = NoPolygons
    /\ provider_reads = 0
    /\ cache_writes = 0
    /\ calls = 0
    /\ last_check = NoCheck
    /\ spc = "idle"
    /\ sargs = NoArgs
    /\ attempt = 0
    /\ candidates = << >>
    /\ answers = << >>
    /\ sresult = NoPoint

\* main of the explorer has not started
ExplorerUnused ==
    /\ explorer_file = "src/sentinel_city_explorer.py"
    /\ epc = "unused"
    /\ selected_cities = << >>
    /\ anchor = 0
    /\ cities_results = << >>
    /\ random_point_result = NoPoint
    /\ city_polygon = [supplied |-> FALSE, w |-> 0, e |-> 0, s |-> 0, n |-> 0]
    /\ fp_attempt = 0
    /\ sampler_calls = << >>
    /\ skipped_random_points = 0
    /\ random_points_on_land = 0
    /\ random_points_in_water = 0
    /\ companions = << >>

\* the quarters of a year (lines 167-168)
quarters == << "Q1", "Q2", "Q3", "Q4" >>

\* query_sentinel2_by_coordinates has not been called
QueryUnused ==
    /\ qpc = "unused"
    /\ quarter = 0
    /\ retry = 0
    /\ status_code = 0
    /\ requests_sent = [q \in 1..Len(quarters) |-> 0]
    /\ events = << >>

(* ------------------------------ bounds --------------------------------- *)
MaxPool == 4

\* the catalogue the pools are drawn from: (lng, population) of each city,
\* all on the equator.  The longitudes differ pairwise by different amounts,
\* so two distances of the model are equal only when they are computed from
\* the same pair of coordinates: a tie of the model is a tie of the floating
\* point computation as well.  One place holds two cities of unequal size.
Catalogue == { <<0, 1>>, <<10, 1>>, <<10, 2>>, <<40, 2>>, <<90, 2>> }

MinDistances == {500, 6000}

(* ----------------------------- constants ------------------------------- *)
Inf == 999999999
MetresPerDegree == 111195

(* ----------------------------- geometry -------------------------------- *)
Abs(x) == IF x < 0 THEN 0 - x ELSE x

MinOf(S) == CHOOSE x \in S : \A y \in S : x <= y
MaxOf(S) == CHOOSE x \in S : \A y \in S : x >= y

\* R * c of the haversine formula, for two points on the equator or on one
\* great circle through the poles: the central angle follows from the
\* differences of the coordinates.
haversine_distance(lat1, lng1, lat2, lng2) ==
    LET dlng == Abs(lng2 - lng1) % 360
        arc  == IF dlng = 0 THEN Abs(lat2 - lat1)
                ELSE IF dlng = 180 THEN 180 - Abs(lat1 + lat2)
                ELSE IF dlng > 180 THEN 360 - dlng ELSE dlng
    IN  arc * MetresPerDegree

Dist(a, b) == haversine_distance(a.lat, a.lng, b.lat, b.lng)

(* ----------------------------- DataFrames ------------------------------ *)
Range(s) == { s[i] : i \in 1..Len(s) }

iloc(df, p) == df[p + 1]

\* df.loc[label]: the row whose index label is label
loc(df, label) == df[CHOOSE i \in 1..Len(df) : df[i].idx = label]

\* reset_index(drop=True)
reset_index(df) == [i \in 1..Len(df) |-> [df[i] EXCEPT !.idx = i - 1]]

\* sort_values('population', ascending=False): descending, rows of equal
\* population keep their input order.
sort_values(df) ==
    LET before(i, j) == \/ df[i].population > df[j].population
                        \/ df[i].population = df[j].population /\ i < j
        rank(i) == Cardinality({ j \in 1..Len(df) : before(j, i) })
    IN  [r \in 1..Len(df) |-> df[CHOOSE i \in 1..Len(df) : rank(i) = r - 1]]

(* ------------------- select_dispersed_cities: greedy ------------------- *)
\* coords_rad is taken from valid_cities BEFORE the sort by population
\* (line 185 precedes line 188): position j is the pool's input position j.
coords_rad == [j \in 0..(Len(cities_df) - 1) |-> iloc(cities_df, j)]

\* one entry of min_distances: -1 for a selected position, otherwise the
\* smallest distance from coords_rad[j] to coords_rad of the selected positions
min_distance_entry_unmarked(j, sel) ==
    MinOf({ Dist(coords_rad[j], coords_rad[s]) : s \in Range(sel) })

min_distance_entry_farthest(j, sel) ==
    IF j \in Range(sel) THEN 0 - 1
    ELSE MaxOf({ Dist(coords_rad[j], coords_rad[s]) : s \in Range(sel) })

min_distance_entry(j, sel) ==
    IF j \in Range(sel) THEN 0 - 1
    ELSE MinOf({ Dist(coords_rad[j], coords_rad[s]) : s \in Range(sel) })

min_distances(sel) ==
    [j \in 0..(Len(valid_cities) - 1) |-> min_distance_entry(j, sel)]

\* np.argmax: the first position holding the largest value
argmax_by_call(f) ==
    LET m == MaxOf({ f[j] : j \in DOMAIN f })
    IN  IF call = 1 THEN MinOf({ j \in DOMAIN f : f[j] = m })
        ELSE MaxOf({ j \in DOMAIN f : f[j] = m })

argmax(f) ==
    LET m == MaxOf({ f[j] : j \in DOMAIN f })
    IN  MinOf({ j \in DOMAIN f : f[j] = m })

\* valid_cities.iloc[selected_indices].reset_index(drop=True)
take(df, positions) ==
    reset_index([k \in 1..Len(positions) |-> iloc(df, positions[k])])

(* --------------------- post_process_city_selection --------------------- *)
Slots(df) == { df[i].idx : i \in 1..Len(df) }

\* lines 81-98: the pairs (i, j), i < j, in iteration order; the first pair
\* at the smallest distance wins (the comparison is strict)
PairDist(df, pr) == Dist(loc(df, pr[1]), loc(df, pr[2]))

Pairs(df) == { pr \in Slots(df) \X Slots(df) : pr[1] < pr[2] }

PairBefore(p, q) == p[1] < q[1] \/ (p[1] = q[1] /\ p[2] < q[2])

find_min_dist(df) ==
    IF Pairs(df) = {} THEN Inf
    ELSE MinOf({ PairDist(df, pr) : pr \in Pairs(df) })

find_closest_pair(df) ==
    IF Pairs(df) = {} THEN << >>
    ELSE CHOOSE pr \in Pairs(df) :
            /\ PairDist(df, pr) = find_min_dist(df)
            /\ \A q \in Pairs(df) :
                  PairDist(df, q) = find_min_dist(df) /\ q # pr => PairBefore(pr, q)

\* line 108
choose_replace_idx_heavier(df, pr) ==
    IF loc(df, pr[1]).population > loc(df, pr[2]).population THEN pr[1] ELSE pr[2]

choose_replace_idx_first(df, pr) == pr[1]

choose_replace_idx(df, pr) ==
    IF loc(df, pr[1]).population < loc(df, pr[2]).population THEN pr[1] ELSE pr[2]

\* lines 124-133: min distance of a candidate to the selection without the
\* slot being replaced
candidate_min_distance(cand, df, replace_idx) ==
    LET others == { s \in Slots(df) : s # replace_idx }
    IN  IF others = {} THEN Inf
        ELSE MinOf({ Dist(cand, loc(df, s)) : s \in others })

\* lines 119-121: the rows of all_cities the scan does not skip
scanned(all_cities, sel_idx) ==
    { k \in 1..Len(all_cities) : all_cities[k].idx \notin sel_idx }

\* lines 115-139: the scan keeps the first row (in all_cities order) whose
\* min distance is the largest and exceeds the initial 0
find_best_replacement(all_cities, df, sel_idx, replace_idx) ==
    LET ks    == scanned(all_cities, sel_idx)
        d(k)  == candidate_min_distance(all_cities[k], df, replace_idx)
        good  == { k \in ks : d(k) > 0 }
    IN  IF good = {} THEN [found |-> FALSE, k |-> 0, max_min_distance |-> 0]
        ELSE LET m == MaxOf({ d(k) : k \in good })
             IN  [found |-> TRUE,
                  k |-> MinOf({ k \in good : d(k) = m }),
                  max_min_distance |-> m]

\* line 142
accept_not_worse(best, md) == best.found /\ best.max_min_distance >= md

accept_any_found(best, md) == best.found

accept(best, md) == best.found /\ best.max_min_distance > md

\* line 145: set.remove(x) raises KeyError when x is not a member
remove_raises(sel_idx, replace_idx) == replace_idx \notin sel_idx

\* lines 142-149: what one pass does with the best replacement it found,
\* and the set selected_indices it leaves (lines 145-146)
swap_step_unchecked(best, md, sel_idx, replace_idx, best_idx) ==
    [outcome |-> IF best.found THEN "swap" ELSE "keep", selected |-> sel_idx]

swap_step(best, md, sel_idx, replace_idx, best_idx) ==
    IF ~accept(best, md) THEN [outcome |-> "keep", selected |-> sel_idx]
    ELSE IF remove_raises(sel_idx, replace_idx)
         THEN [outcome |-> "KeyError", selected |-> sel_idx]
         ELSE [outcome |-> "swap",
               selected |-> (sel_idx \ {replace_idx}) \cup {best_idx}]

\* line 144: improved_cities.loc[replace_idx] = best_replacement
set_loc_at_end(df, label, row) ==
    LET kept == { i \in 1..Len(df) : df[i].idx # label }
        nth(r) == CHOOSE i \in kept : Cardinality({ j \in kept : j < i }) = r - 1
    IN  [r \in 1..Len(df) |->
            IF r <= Cardinality(kept) THEN df[nth(r)]
            ELSE [row EXCEPT !.idx = label]]

set_loc(df, label, row) ==
    [i \in 1..Len(df) |->
        IF df[i].idx = label THEN [row EXCEPT !.idx = label] ELSE df[i]]

(* ------------------------------- inputs -------------------------------- *)
\* a DataFrame built from a list of records has the RangeIndex 0..len-1
Frame(lngs, pops) ==
    [i \in 1..Len(lngs) |->
        [idx |-> i - 1, city |-> i - 1, lat |-> 0, lng |-> lngs[i],
         population |-> pops[i]]]

\* a pool may list a catalogue entry more than once (two rows of the CSV
\* with the same place and size are still two candidates)
Pools ==
    UNION { { Frame([i \in 1..len |-> c[i][1]], [i \in 1..len |-> c[i][2]])
              : c \in [1..len -> Catalogue] }
            : len \in 1..MaxPool }

\* spec.md, section 8, concrete scenario A
ScenarioA == Frame(<<0, 10, 20, 30, 40>>, <<100, 90, 80, 70, 60>>)

Idle ==
    /\ pc = "call"
    /\ n_cities = n_arg
    /\ valid_cities = << >>
    /\ selected_indices = << >>
    /\ improved_cities = << >>
    /\ pp_selected = {}
    /\ min_dist = Inf
    /\ closest_pair = << >>
    /\ swaps = 0
    /\ exit = "none"

Init ==
    /\ \/ /\ cities_df \in Pools
          /\ n_arg \in 0..MaxPool
          /\ apply_post_processing \in BOOLEAN
          \* without post-processing min_distance_km is never read
          /\ min_distance_km \in
                IF apply_post_processing THEN MinDistances ELSE {500}
       \/ /\ cities_df = ScenarioA
          /\ n_arg = 3
          /\ min_distance_km = 500
          /\ apply_post_processing = TRUE
    /\ Idle
    /\ call = 1
    /\ first_return = [pc |-> "none", rows |-> << >>]
    /\ LandUnused
    /\ ExplorerUnused
    /\ QueryUnused

(* ------------------------------- actions ------------------------------- *)
\* lines 176-189: clamp, sort, seed
Start ==
    /\ pc = "call"
    /\ n_cities' = IF Len(cities_df) < n_arg THEN Len(cities_df) ELSE n_arg
    /\ valid_cities' = sort_values(cities_df)
    /\ selected_indices' = << 0 >>
    /\ pc' = "greedy"
    /\ UNCHANGED << cities_df, n_arg, min_distance_km, apply_post_processing,
                    improved_cities, pp_selected, min_dist, closest_pair,
                    swaps, exit,
                    call, first_return, land_vars,
                    explorer_vars, query_vars >>

\* lines 192-214: one pass of "for i in range(1, n_cities)"
GreedyStep ==
    /\ pc = "greedy"
    /\ Len(selected_indices) < n_cities
    /\ selected_indices' =
          Append(selected_indices, argmax(min_distances(selected_indices)))
    /\ UNCHANGED << cities_df, n_arg, min_distance_km, apply_post_processing,
                    pc, n_cities, valid_cities, improved_cities, pp_selected,
                    min_dist, closest_pair, swaps, exit,
                    call, first_return, land_vars,
                    explorer_vars, query_vars >>

\* lines 216-225 without post-processing: return selected_cities
ReturnSelected ==
    /\ pc = "greedy"
    /\ Len(selected_indices) >= n_cities
    /\ ~apply_post_processing
    /\ improved_cities' = take(valid_cities, selected_indices)
    /\ pc' = "returned"
    /\ exit' = "no_post_processing"
    /\ UNCHANGED << cities_df, n_arg, min_distance_km, apply_post_processing,
                    n_cities, valid_cities, selected_indices, pp_selected,
                    min_dist, closest_pair, swaps,
                    call, first_return, land_vars,
                    explorer_vars, query_vars >>

\* lines 216-223 and 65-73: enter post_process_city_selection
EnterPostProcess ==
    /\ pc = "greedy"
    /\ Len(selected_indices) >= n_cities
    /\ apply_post_processing
    /\ improved_cities' = take(valid_cities, selected_indices)
    /\ pp_selected' = Slots(improved_cities')
    /\ pc' = "post"
    /\ UNCHANGED << cities_df, n_arg, min_distance_km, apply_post_processing,
                    n_cities, valid_cities, selected_indices, min_dist,
                    closest_pair, swaps, exit,
                    call, first_return, land_vars,
                    explorer_vars, query_vars >>

\* the values one pass of the while loop computes (lines 81-139)
PassMinDist == find_min_dist(improved_cities)
PassPair == find_closest_pair(improved_cities)
PassTooClose == PassMinDist < min_distance_km * 1000 /\ PassPair # << >>
PassReplaceIdx == choose_replace_idx(improved_cities, PassPair)
PassBest ==
    find_best_replacement(valid_cities, improved_cities, pp_selected, PassReplaceIdx)
PassBestIdx == IF PassBest.found THEN valid_cities[PassBest.k].idx ELSE 0 - 1
PassStep ==
    swap_step(PassBest, PassMinDist, pp_selected, PassReplaceIdx, PassBestIdx)

\* lines 150-155: the closest pair is far enough apart (or there is no pair)
RepairSatisfied ==
    /\ pc = "post"
    /\ ~PassTooClose
    /\ min_dist' = PassMinDist
    /\ closest_pair' = PassPair
    /\ pc' = "returned"
    /\ exit' = "satisfied"
    /\ UNCHANGED << cities_df, n_arg, min_distance_km, apply_post_processing,
                    n_cities, valid_cities, selected_indices, improved_cities,
                    pp_selected, swaps,
                    call, first_return, land_vars,
                    explorer_vars, query_vars >>

\* lines 148-149, 77, 154-155: no better replacement, the loop ends
RepairNoReplacement ==
    /\ pc = "post"
    /\ PassTooClose
    /\ PassStep.outcome = "keep"
    /\ min_dist' = PassMinDist
    /\ closest_pair' = PassPair
    /\ pc' = "returned"
    /\ exit' = "no_improvement"
    /\ UNCHANGED << cities_df, n_arg, min_distance_km, apply_post_processing,
                    n_cities, valid_cities, selected_indices, improved_cities,
                    pp_selected, swaps,
                    call, first_return, land_vars,
                    explorer_vars, query_vars >>

\* lines 142-147: the replacement is applied and the loop goes round again
RepairSwap ==
    /\ pc = "post"
    /\ PassTooClose
    /\ PassStep.outcome = "swap"
    /\ min_dist' = PassMinDist
    /\ closest_pair' = PassPair
    /\ improved_cities' =
          set_loc(improved_cities, PassReplaceIdx, valid_cities[PassBest.k])
    /\ pp_selected' = PassStep.selected
    /\ swaps' = swaps + 1
    /\ UNCHANGED << cities_df, n_arg, min_distance_km, apply_post_processing,
                    pc, n_cities, valid_cities, selected_indices, exit,
                    call, first_return, land_vars,
                    explorer_vars, query_vars >>

\* lines 144-145: the row is replaced, then set.remove(replace_idx) raises
\* KeyError because replace_idx is no longer in selected_indices
RepairSwapKeyError ==
    /\ pc = "post"
    /\ PassTooClose
    /\ PassStep.outcome = "KeyError"
    /\ min_dist' = PassMinDist
    /\ closest_pair' = PassPair
    /\ improved_cities' =
          set_loc(improved_cities, PassReplaceIdx, valid_cities[PassBest.k])
    /\ swaps' = swaps + 1
    /\ pc' = "raised"
    /\ exit' = "KeyError"
    /\ UNCHANGED << cities_df, n_arg, min_distance_km, apply_post_processing,
                    n_cities, valid_cities, selected_indices, pp_selected,
                    call, first_return, land_vars,
                    explorer_vars, query_vars >>

Next ==
    \/ Start
    \/ GreedyStep
    \/ ReturnSelected
    \/ EnterPostProcess
    \/ RepairSatisfied
    \/ RepairNoReplacement
    \/ RepairSwap
    \/ RepairSwapKeyError

Spec == Init /\ [][Next]_vars

\* the caller calls select_dispersed_cities once more with the same arguments
CallAgain ==
    /\ call = 1
    /\ pc \in {"returned", "raised"}
    /\ UNCHANGED << cities_df, n_arg, min_distance_km, apply_post_processing,
                    land_vars, explorer_vars, query_vars >>
    /\ call' = 2
    /\ first_return' = [pc |-> pc, rows |-> improved_cities]
    /\ pc' = "call"
    /\ n_cities' = n_arg
    /\ valid_cities' = << >>
    /\ selected_indices' = << >>
    /\ improved_cities' = << >>
    /\ pp_selected' = {}
    /\ min_dist' = Inf
    /\ closest_pair' = << >>
    /\ swaps' = 0
    /\ exit' = "none"

NextTwice == Next \/ CallAgain

SpecTwice == Init /\ [][NextTwice]_vars

(* ------------------------- what the claims use ------------------------- *)
Min2(a, b) == IF a < b THEN a ELSE b

Positions == 0..(Len(valid_cities) - 1)

\* the candidates a list of positions of valid_cities stands for
CandidateAt(p) == iloc(valid_cities, p)

\* coverage gap of the candidate at position p: its smallest great-circle
\* distance to the candidates already selected
CoverageGap(p, sel) ==
    MinOf({ Dist(CandidateAt(p), CandidateAt(s)) : s \in Range(sel) })

GreedyAppends ==
    pc = "greedy" /\ Len(selected_indices') = Len(selected_indices) + 1

SwapAccepted == pc = "post" /\ swaps' = swaps + 1

MaxPopulation == MaxOf({ cities_df[i].population : i \in 1..Len(cities_df) })

Lngs(df) == [i \in 1..Len(df) |-> df[i].lng]

IsScenarioA ==
    /\ cities_df = ScenarioA
    /\ n_arg = 3
    /\ min_distance_km = 500
    /\ apply_post_processing

(* C1: at every greedy step the appended candidate is unselected and its
   coverage gap (smallest great-circle distance to the candidates selected
   so far) is the largest among the unselected candidates of the pool.  The
   tie-break by input order is left out: the statement fails without it. *)
C1_GreedyPicksLargestGap ==
    [][ GreedyAppends =>
          LET x     == selected_indices'[Len(selected_indices')]
              unsel == Positions \ Range(selected_indices)
          IN  /\ x \in unsel
              /\ \A p \in unsel :
                    CoverageGap(x, selected_indices) >= CoverageGap(p, selected_indices) ]_vars

(* C2: a call that returns hands back exactly min(n, len(pool)) candidates,
   for every n >= 0. *)
C2_SelectionSize ==
    pc = "returned" => Len(improved_cities) = Min2(n_arg, Len(cities_df))

(* C3: for n >= 1 slot 0 of the selection always holds the seed, a candidate
   of maximal population, with or without the repair pass. *)
C3_SeedStaysFirst ==
    (n_arg >= 1 /\ pc \in {"post", "returned", "raised"}) =>
        /\ improved_cities[1].population = MaxPopulation
        /\ improved_cities[1].city = valid_cities[1].city

\* a replacement was applied in a pass whose closest pair contained slot 0
C3_Witness ==
    /\ n_arg >= 1
    /\ pc = "returned"
    /\ swaps >= 1
    /\ closest_pair # << >>
    /\ closest_pair[1] = 0

(* C4: scenario A returns (0,0), (0,40), (0,20) in this order and the repair
   pass replaces nothing. *)
C4_ScenarioA ==
    IsScenarioA =>
        /\ pc # "raised"
        /\ pc = "returned" =>
              /\ Lngs(improved_cities) = << 0, 40, 20 >>
              /\ \A i \in 1..3 : improved_cities[i].lat = 0
              /\ swaps = 0

C4_Witness == IsScenarioA /\ pc = "returned" /\ exit = "satisfied"

\* some closest pair of the selection does not contain the slot replaced
TiedElsewhere(df, replace_idx) ==
    \E pr \in Pairs(df) :
        /\ PairDist(df, pr) = find_min_dist(df)
        /\ pr[1] # replace_idx
        /\ pr[2] # replace_idx

(* C5 as stated: after each accepted repair swap the minimum pairwise
   distance of the selection is strictly greater than before the swap. *)
C5_SwapStrictlyIncreasesMin ==
    [][ SwapAccepted =>
          find_min_dist(improved_cities') > find_min_dist(improved_cities) ]_vars

(* C5 amended: an accepted repair swap never lowers the minimum pairwise
   distance of the selection; it raises it strictly unless another pair,
   not containing the replaced slot, is also at the minimum, and then the
   minimum stays as it was. *)
C5_SwapNeverLowersMin ==
    [][ SwapAccepted =>
          IF TiedElsewhere(improved_cities, PassReplaceIdx)
          THEN find_min_dist(improved_cities') = find_min_dist(improved_cities)
          ELSE find_min_dist(improved_cities') > find_min_dist(improved_cities) ]_vars

\* a swap has just been applied and the minimum distance went up
C5_Witness ==
    /\ pc = "post"
    /\ swaps >= 1
    /\ find_min_dist(improved_cities) > min_dist

(* C6: with the repair pass enabled the call ends at one of the two exits
   of the repair loop: closest pair at least min_distance_km apart, or no
   strictly improving replacement.  Every run of the model is finite, so
   the claim is stated on the states in which the call has ended. *)
C6_RepairEndsAtAnExit ==
    (apply_post_processing /\ pc \notin {"call", "greedy", "post"}) =>
        exit \in {"satisfied", "no_improvement"}

(* C7: post_process_city_selection never raises. *)
C7_RepairNeverRaises == pc # "raised"

(* C8: the number of accepted repair swaps of one call never exceeds the
   number of candidates in the pool. *)
C8_SwapsBoundedByPool == swaps <= Len(cities_df)

\* a call has returned after more than one accepted swap
C8_Witness == pc = "returned" /\ swaps >= 2

(* C9: the selection never holds a candidate twice, neither during greedy
   expansion (no position is selected twice) nor after repair swaps. *)
C9_NoCandidateTwice ==
    /\ \A i, j \in 1..Len(selected_indices) :
          i # j => selected_indices[i] # selected_indices[j]
    /\ \A i, j \in 1..Len(improved_cities) :
          i # j => improved_cities[i].city # improved_cities[j].city

\* after a swap, a selected candidate is scanned as a possible replacement
\* (its pool label is not in the set selected_indices) and is not taken
C9_Witness ==
    /\ pc = "returned"
    /\ swaps >= 1
    /\ Len(improved_cities) >= 3
    /\ \E i \in 1..Len(improved_cities) :
          improved_cities[i].city \notin pp_selected

(* C10: select is deterministic: a second call with the same pool, n,
   min_distance_km and repair flag ends as the first one did and returns the
   same sequence, candidate for candidate and slot for slot. *)
C10_SecondCallReturnsTheSame ==
    (call = 2 /\ pc \in {"returned", "raised"}) =>
        /\ first_return.pc = pc
        /\ pc = "returned" => first_return.rows = improved_cities

\* the second call has returned after greedy steps decided by a tie and a
\* repair swap
C10_Witness ==
    /\ call = 2
    /\ pc = "returned"
    /\ Len(improved_cities) >= 3
    /\ swaps >= 1

(* ======================================================================= *)
(* sentinel_query: is_point_on_land and get_random_point_at_distance.      *)
(* The repository holds two copies, src/sentinel_query.py and              *)
(* src/src/sentinel_query.py; module_file says which one runs.             *)
(* Points are (lat, lon) in whole degrees.                                 *)
(* ======================================================================= *)
MaxCalls == 2
MaxAttempts == 2

(* ------------------------------ polygons ------------------------------- *)
\* a polygon with sides along meridians and parallels
Rect(w, e, s, n) == [kind |-> "rect", w |-> w, e |-> e, s |-> s, n |-> n]

\* a row whose geometry cannot be tested: point.within(row.geometry) raises
BadRow == [kind |-> "bad", w |-> 0, e |-> 0, s |-> 0, n |-> 0]

\* _create_simplified_land_polygons: the ten rectangles, in dict order
simplified_land_polygons ==
    << Rect(-175, -45, 0, 85),    \* North America
       Rect(-95, -25, -65, 20),   \* South America
       Rect(-15, 50, 30, 75),     \* Europe
       Rect(-25, 60, -45, 45),    \* Africa
       Rect(35, 185, -5, 85),     \* Asia
       Rect(105, 160, -50, -5),   \* Australia
       Rect(-185, 185, -95, -55), \* Antarctica
       Rect(-90, -55, 10, 30),    \* Caribbean
       Rect(90, 130, -10, 25),    \* Southeast Asia
       Rect(130, 180, -30, 30) >> \* Pacific Islands

\* contents the dataset file may have: one island, and the same island
\* after a row that cannot be tested
Island == << Rect(-1, 10, -1, 10) >>
DamagedThenIsland == << BadRow, Rect(-1, 10, -1, 10) >>

NeFiles ==
    { [state |-> "missing", rows |-> << >>],
      [state |-> "unreadable", rows |-> << >>],
      [state |-> "present", rows |-> Island],
      [state |-> "present", rows |-> DamagedThenIsland] }

ModuleFiles == { "src/sentinel_query.py", "src/src/sentinel_query.py" }

(* --------------------------- is_point_on_land -------------------------- *)
\* shapely: point.within(polygon) is true for points of the interior
within(point, row) ==
    /\ row.w < point.lon /\ point.lon < row.e
    /\ row.s < point.lat /\ point.lat < row.n

\* lines 452-456: one pass of the loop over the rows; an exception of
\* within is swallowed and the loop goes on
row_answer_unguarded(point, row) ==
    IF row.kind = "bad" THEN "raise"
    ELSE IF within(point, row) THEN "land" ELSE "next"

row_answer(point, row) ==
    IF row.kind = "bad" THEN "next"
    ELSE IF within(point, row) THEN "land" ELSE "next"

\* lines 451-458: the first row that ends the loop decides
scan_polygons(point, rows) ==
    LET ending == { i \in 1..Len(rows) : row_answer(point, rows[i]) # "next" }
    IN  IF ending = {} THEN "water"
        ELSE row_answer(point, rows[MinOf(ending)])

\* lines 431-448 (src/sentinel_query.py) and 244-260 (src/src): what the
\* block "if _LAND_POLYGONS is None" leaves behind
load_land_polygons(cache) ==
    IF cache.loaded
    THEN [cache |-> cache, reads |-> 0, writes |-> 0, returned |-> FALSE]
    ELSE IF ne_file.state = "present"
    THEN [cache |-> [loaded |-> TRUE, rows |-> ne_file.rows],
          reads |-> 1, writes |-> 1, returned |-> FALSE]
    ELSE IF module_file = "src/sentinel_query.py"
    THEN [cache |-> [loaded |-> TRUE, rows |-> simplified_land_polygons],
          reads |-> 1, writes |-> 1, returned |-> FALSE]
    ELSE \* src/src/sentinel_query.py lines 253-260: warn and return False
         [cache |-> cache, reads |-> 1, writes |-> 0, returned |-> TRUE]

\* the whole call: its answer and what it does to the module's state
is_point_on_land(lat, lon, cache) ==
    LET point == [lat |-> lat, lon |-> lon]
        load  == load_land_polygons(cache)
        scan  == IF load.returned THEN "water"
                 ELSE scan_polygons(point, load.cache.rows)
    IN  [answer |-> scan = "land", raised |-> scan = "raise",
         cache |-> load.cache, reads |-> load.reads, writes |-> load.writes]

(* ------------------ _generate_random_point_at_distance ----------------- *)
\* random.uniform(0, 360): the four cardinal bearings stand for the draw
Bearings == {0, 90, 180, 270}

\* distance_km / R, as an angle in degrees
distance_rad(distance_m) == distance_m \div MetresPerDegree

\* asin(sin x): x folded into [-90, 90]
asin_sin(x) ==
    LET m == x % 360
    IN  IF m <= 90 THEN m ELSE IF m <= 270 THEN 180 - m ELSE m - 360

\* atan2(sin x, cos x): x reduced to (-180, 180]
atan2_sin_cos(x) ==
    LET m == x % 360
    IN  IF m <= 180 THEN m ELSE m - 360

\* atan2(y, x) of lines 582-585 for a bearing along the meridian, where y
\* is a zero with the sign of sin(distance) and x = cos(lat) * cos(lat2):
\* 0 when x > 0, otherwise +180 or -180 after the sign of y
atan2_on_meridian(lat2_unfolded, d) ==
    LET m == lat2_unfolded % 360
    IN  IF m <= 90 \/ m >= 270 THEN 0
        ELSE IF d % 360 > 180 THEN 0 - 180 ELSE 180

\* lines 576-579
new_lat_without_asin(lat, d, bearing) ==
    IF bearing = 0 THEN lat + d
    ELSE IF bearing = 180 THEN lat - d
    ELSE 0

new_lat(lat, d, bearing) ==
    IF bearing = 0 THEN asin_sin(lat + d)
    ELSE IF bearing = 180 THEN asin_sin(lat - d)
    ELSE 0   \* bearings 90 and 270 start on the equator and stay on it

\* lines 582-585: lon_rad + atan2(...), converted back to degrees
new_lon(lat, lon, d, bearing) ==
    IF bearing = 0 THEN lon + atan2_on_meridian(lat + d, d)
    ELSE IF bearing = 180 THEN lon + atan2_on_meridian(lat - d, d)
    ELSE IF bearing = 90 THEN lon + atan2_sin_cos(d)
    ELSE lon - atan2_sin_cos(d)

\* lines 550-591 for the bearing drawn
generate_random_point_at_distance(lat, lon, distance_m, bearing) ==
    [lat |-> new_lat(lat, distance_rad(distance_m), bearing),
     lon |-> new_lon(lat, lon, distance_rad(distance_m), bearing),
     bearing |-> bearing]

(* --------------------- get_random_point_at_distance -------------------- *)
Anchors == { [lat |-> 0, lon |-> 0], [lat |-> 0, lon |-> 179],
             [lat |-> 0, lon |-> 0 - 100] }

\* arcs of 3, 100 and 200 degrees: a few hundred kilometres, a quarter of
\* the globe and more, and more than half of the circumference
DistancesM == { 3 * MetresPerDegree, 100 * MetresPerDegree,
                200 * MetresPerDegree }

SamplerArgs ==
    { [lat |-> a.lat, lon |-> a.lon, distance_m |-> d, ensure_on_land |-> e,
       max_attempts |-> m] :
        a \in Anchors, d \in DistancesM, e \in BOOLEAN, m \in 0..MaxAttempts }

\* points a caller asks is_point_on_land about directly
Probes == { [lat |-> 3, lon |-> 0], [lat |-> 0 - 3, lon |-> 0 - 100],
            [lat |-> 20, lon |-> 20] }

SelectorUnused ==
    /\ cities_df = << >>
    /\ n_arg = 0
    /\ min_distance_km = 500
    /\ apply_post_processing = FALSE
    /\ Idle
    /\ call = 1
    /\ first_return = [pc |-> "none", rows |-> << >>]

InitLand ==
    /\ SelectorUnused
    /\ ExplorerUnused
    /\ QueryUnused
    /\ module_file \in ModuleFiles
    /\ ne_file \in NeFiles
    /\ LAND_POLYGONS = NoPolygons
    /\ provider_reads = 0
    /\ cache_writes = 0
    /\ calls = 0
    /\ last_check = NoCheck
    /\ spc = "idle"
    /\ sargs = NoArgs
    /\ attempt = 0
    /\ candidates = << >>
    /\ answers = << >>
    /\ sresult = NoPoint

\* lines 544-545: where the loop stands after an attempt
after_attempt_keeps_trying(r) ==
    IF r.raised THEN "raised" ELSE "entered"

after_attempt(r) ==
    IF r.raised THEN "raised"
    ELSE IF r.answer THEN "returned" ELSE "entered"

\* line 548: what is returned when the loop has run out
exhausted_return_last_candidate(cands) ==
    IF cands = << >> THEN NoPoint
    ELSE [none |-> FALSE, lat |-> cands[Len(cands)].lat,
          lon |-> cands[Len(cands)].lon, is_on_land |-> FALSE]

exhausted_return(cands) == NoPoint

\* line 538: what is returned when ensure_on_land is false
unchecked_return_land_only(p, r) ==
    IF r.answer
    THEN [none |-> FALSE, lat |-> p.lat, lon |-> p.lon, is_on_land |-> TRUE]
    ELSE NoPoint

unchecked_return(p, r) ==
    [none |-> FALSE, lat |-> p.lat, lon |-> p.lon, is_on_land |-> r.answer]

\* the effect of one call of is_point_on_land on the module's state
Checked(lat, lon, r) ==
    /\ LAND_POLYGONS' = r.cache
    /\ provider_reads' = provider_reads + r.reads
    /\ cache_writes' = cache_writes + r.writes
    /\ last_check' = [made |-> TRUE, lat |-> lat, lon |-> lon,
                      answer |-> r.answer, raised |-> r.raised]

\* a caller asks is_point_on_land about a point
CheckPoint ==
    /\ spc \in {"idle", "returned", "raised"}
    /\ calls < MaxCalls
    /\ \E p \in Probes :
          Checked(p.lat, p.lon, is_point_on_land(p.lat, p.lon, LAND_POLYGONS))
    /\ calls' = calls + 1
    /\ UNCHANGED << selector_vars, explorer_vars, query_vars, module_file, ne_file, spc, sargs, attempt,
                    candidates, answers, sresult >>

\* a caller calls get_random_point_at_distance
SampleBegin ==
    /\ spc \in {"idle", "returned", "raised"}
    /\ calls < MaxCalls
    /\ sargs' \in SamplerArgs
    /\ spc' = "entered"
    /\ attempt' = 0
    /\ candidates' = << >>
    /\ answers' = << >>
    /\ sresult' = NoPoint
    /\ calls' = calls + 1
    /\ UNCHANGED << selector_vars, explorer_vars, query_vars, module_file, ne_file, LAND_POLYGONS,
                    provider_reads, cache_writes, last_check >>

\* lines 535-538: ensure_on_land is false, one point is generated
SampleUnchecked ==
    /\ spc = "entered"
    /\ ~sargs.ensure_on_land
    /\ \E b \in Bearings :
          LET p == generate_random_point_at_distance(
                       sargs.lat, sargs.lon, sargs.distance_m, b)
              r == is_point_on_land(p.lat, p.lon, LAND_POLYGONS)
          IN  /\ Checked(p.lat, p.lon, r)
              /\ candidates' = Append(candidates, p)
              /\ answers' = Append(answers, r.answer)
              /\ spc' = IF r.raised THEN "raised" ELSE "returned"
              /\ sresult' = IF r.raised THEN NoPoint
                            ELSE unchecked_return(p, r)
    /\ UNCHANGED << selector_vars, explorer_vars, query_vars, module_file, ne_file, calls, sargs, attempt >>

\* lines 541-545: one pass of "for attempt in range(max_attempts)"
SampleAttempt ==
    /\ spc = "entered"
    /\ sargs.ensure_on_land
    /\ attempt < sargs.max_attempts
    /\ \E b \in Bearings :
          LET p == generate_random_point_at_distance(
                       sargs.lat, sargs.lon, sargs.distance_m, b)
              r == is_point_on_land(p.lat, p.lon, LAND_POLYGONS)
          IN  /\ Checked(p.lat, p.lon, r)
              /\ candidates' = Append(candidates, p)
              /\ answers' = Append(answers, r.answer)
              /\ spc' = after_attempt(r)
              /\ sresult' = IF after_attempt(r) = "raised" THEN NoPoint
                            ELSE IF r.answer
                            THEN [none |-> FALSE, lat |-> p.lat, lon |-> p.lon,
                                  is_on_land |-> TRUE]
                            ELSE sresult
    /\ attempt' = attempt + 1
    /\ UNCHANGED << selector_vars, explorer_vars, query_vars, module_file, ne_file, calls, sargs >>

\* lines 547-548: the loop is over, return None
SampleExhausted ==
    /\ spc = "entered"
    /\ sargs.ensure_on_land
    /\ attempt >= sargs.max_attempts
    /\ spc' = "returned"
    /\ sresult' = exhausted_return(candidates)
    /\ UNCHANGED << selector_vars, explorer_vars, query_vars, module_file, ne_file, LAND_POLYGONS,
                    provider_reads, cache_writes, calls, last_check, sargs,
                    attempt, candidates, answers >>

NextLand ==
    \/ CheckPoint
    \/ SampleBegin
    \/ SampleUnchecked
    \/ SampleAttempt
    \/ SampleExhausted

SpecLand == InitLand /\ [][NextLand]_vars

(* ======================================================================= *)
(* sentinel_city_explorer: main.  Two copies, src/sentinel_city_explorer.py *)
(* and src/src/sentinel_city_explorer.py; explorer_file says which runs.   *)
(* get_random_point_at_distance is taken by what it can return: None or a  *)
(* point on land at the distance (ensure_on_land is always true, line 34). *)
(* ======================================================================= *)
MaxAnchors == 2

\* src/src/sentinel_city_explorer.py line 260: max_attempts = 20
FootprintAttempts == 20

ExplorerFiles ==
    { "src/sentinel_city_explorer.py", "src/src/sentinel_city_explorer.py" }

\* the rows select_dispersed_cities returned, 40 degrees apart
SelectedCities(n) == [i \in 1..n |-> [lat |-> 0, lon |-> 40 * (i - 1)]]

NoPolygon == [supplied |-> FALSE, w |-> 0, e |-> 0, s |-> 0, n |-> 0]

\* footprints the tile of a city may have, as the rectangle of longitudes
\* w..e and latitudes s..n of restoGeometry: one that holds the candidate
\* to the north, one that holds the candidate to the south, and one that
\* holds every candidate
Footprints(a) ==
    { [supplied |-> TRUE, w |-> a.lon - 1, e |-> a.lon + 5, s |-> 0 - 1, n |-> 5],
      [supplied |-> TRUE, w |-> a.lon - 1, e |-> a.lon + 5, s |-> 0 - 5, n |-> 1],
      [supplied |-> TRUE, w |-> a.lon - 5, e |-> a.lon + 5, s |-> 0 - 5, n |-> 5] }

\* what query_sentinel2_by_coordinates may give for a city: nothing, a
\* result without products, or a tile with or without footprint and tile id
TileResults(a) ==
    { [city_lon |-> a.lon, result |-> FALSE, count |-> 0,
       footprint |-> NoPolygon, tile_id |-> FALSE],
      [city_lon |-> a.lon, result |-> TRUE, count |-> 0,
       footprint |-> NoPolygon, tile_id |-> FALSE],
      [city_lon |-> a.lon, result |-> TRUE, count |-> 1,
       footprint |-> NoPolygon, tile_id |-> TRUE] }
    \cup
    { [city_lon |-> a.lon, result |-> TRUE, count |-> 1, footprint |-> f,
       tile_id |-> t] :
        f \in Footprints(a), t \in BOOLEAN }

\* the bearings drawn in a run of the explorer: due north and due south
ExplorerBearings == {0, 180}

\* what get_random_point_at_distance(lat, lon, args.random_distance, ...) may
\* return; random_distance is an arc of 3 degrees
SamplerReturns(a) ==
    { NoPoint } \cup
    { [none |-> FALSE,
       lat |-> generate_random_point_at_distance(
                   a.lat, a.lon, 3 * MetresPerDegree, b).lat,
       lon |-> generate_random_point_at_distance(
                   a.lat, a.lon, 3 * MetresPerDegree, b).lon,
       is_on_land |-> TRUE] : b \in ExplorerBearings }

\* src/src lines 241, 257 and 278: coords holds (lat, lon) pairs, so the x
\* of Polygon(coords) is a latitude and its y a longitude, while
\* Point(random_lon, random_lat) has the longitude as x and the latitude
\* as y; contains compares x with x and y with y
contains(polygon, point) ==
    /\ polygon.s < point.lon /\ point.lon < polygon.n
    /\ polygon.w < point.lat /\ point.lat < polygon.e

\* src/src lines 125, 201, 215 (src line 163): cities_results after the query
append_city_result(results, q) ==
    IF q.result THEN Append(results, q) ELSE results

\* src/src lines 225-251: which way the random point is generated; the src
\* copy always makes the one call of lines 168-172
sampling_path(results) ==
    IF explorer_file = "src/sentinel_city_explorer.py" THEN "standard"
    ELSE IF results # << >> /\ results[Len(results)].count > 0
    THEN IF results[Len(results)].footprint.supplied
            /\ results[Len(results)].tile_id
         THEN "footprint" ELSE "standard"
    ELSE "decide"

\* src/src line 300 (src line 175): skip the random point or query for it
after_sampling_always_query(result) == "query"

after_sampling(result) == IF result.none THEN "skip" ELSE "query"

Called(a) == [sampler_calls EXCEPT ![a] = @ + 1]

\* src/src lines 308-313 (src lines 183-188): the counter a point adds to
count_random_point_twice(result) == [on_land |-> 1, in_water |-> 1]

count_random_point(result) ==
    IF result.is_on_land THEN [on_land |-> 1, in_water |-> 0]
    ELSE [on_land |-> 0, in_water |-> 1]

InitExplorer ==
    /\ SelectorUnused
    /\ LandUnused
    /\ QueryUnused
    /\ explorer_file \in ExplorerFiles
    /\ epc = "start"
    /\ selected_cities = << >>
    /\ anchor = 0
    /\ cities_results = << >>
    /\ random_point_result = NoPoint
    /\ city_polygon = NoPolygon
    /\ fp_attempt = 0
    /\ sampler_calls = << >>
    /\ skipped_random_points = 0
    /\ random_points_on_land = 0
    /\ random_points_in_water = 0
    /\ companions = << >>

\* src/src lines 69-106: load the cities, select, set up the counters
ExplorerSelect ==
    /\ epc = "start"
    /\ \E n \in 0..MaxAnchors :
          /\ selected_cities' = SelectedCities(n)
          /\ sampler_calls' = [i \in 1..n |-> 0]
    /\ anchor' = 1
    /\ epc' = "city"
    /\ UNCHANGED << selector_vars, land_vars, query_vars, explorer_file, cities_results,
                    random_point_result, city_polygon, fp_attempt,
                    skipped_random_points, random_points_on_land,
                    random_points_in_water, companions >>

\* src/src lines 108-257: the query for the city, its entry in
\* cities_results, and the choice of how to generate the random point
ExplorerCityQuery ==
    /\ epc = "city"
    /\ anchor <= Len(selected_cities)
    /\ \E q \in TileResults(selected_cities[anchor]) :
          /\ cities_results' = append_city_result(cities_results, q)
          /\ epc' = sampling_path(cities_results')
          /\ city_polygon' =
                IF sampling_path(cities_results') = "footprint"
                THEN cities_results'[Len(cities_results')].footprint
                ELSE NoPolygon
    /\ random_point_result' = NoPoint
    /\ fp_attempt' = 0
    /\ UNCHANGED << selector_vars, land_vars, query_vars, explorer_file, selected_cities,
                    anchor, sampler_calls, skipped_random_points, random_points_on_land,
                    random_points_in_water, companions >>

\* src/src lines 291-297, src lines 168-172: one call of the sampler
ExplorerSampleStandard ==
    /\ epc = "standard"
    /\ random_point_result' \in SamplerReturns(selected_cities[anchor])
    /\ sampler_calls' = Called(anchor)
    /\ epc' = "decide"
    /\ UNCHANGED << selector_vars, land_vars, query_vars, explorer_file, selected_cities,
                    anchor, cities_results, city_polygon, fp_attempt,
                    skipped_random_points, random_points_on_land,
                    random_points_in_water, companions >>

\* src/src lines 263-281: one pass of the loop that looks for a point
\* outside the footprint
ExplorerFootprintAttempt ==
    /\ epc = "footprint"
    /\ fp_attempt < FootprintAttempts
    /\ \E r \in SamplerReturns(selected_cities[anchor]) :
          /\ random_point_result' = r
          /\ IF ~r.none /\ ~contains(city_polygon, r)
             THEN epc' = "decide" /\ fp_attempt' = fp_attempt
             ELSE epc' = "footprint" /\ fp_attempt' = fp_attempt + 1
    /\ sampler_calls' = Called(anchor)
    /\ UNCHANGED << selector_vars, land_vars, query_vars, explorer_file, selected_cities,
                    anchor, cities_results, city_polygon,
                    skipped_random_points, random_points_on_land,
                    random_points_in_water, companions >>

\* src/src lines 283-290: no point outside the footprint was found, fall
\* back to a point that is not compared with the footprint
ExplorerFootprintFallback ==
    /\ epc = "footprint"
    /\ fp_attempt >= FootprintAttempts
    /\ random_point_result' \in SamplerReturns(selected_cities[anchor])
    /\ sampler_calls' = Called(anchor)
    /\ epc' = "decide"
    /\ UNCHANGED << selector_vars, land_vars, query_vars, explorer_file, selected_cities,
                    anchor, cities_results, city_polygon, fp_attempt,
                    skipped_random_points, random_points_on_land,
                    random_points_in_water, companions >>

\* src/src lines 300-303, src lines 175-178: skip the random point
ExplorerSkip ==
    /\ epc = "decide"
    /\ after_sampling(random_point_result) = "skip"
    /\ skipped_random_points' = skipped_random_points + 1
    /\ anchor' = anchor + 1
    /\ epc' = "city"
    /\ UNCHANGED << selector_vars, land_vars, query_vars, explorer_file, selected_cities,
                    cities_results, random_point_result, city_polygon,
                    fp_attempt, sampler_calls, random_points_on_land,
                    random_points_in_water, companions >>

\* src/src lines 305-445, src lines 180-300: query for the random point
ExplorerCompanionQuery ==
    /\ epc = "decide"
    /\ after_sampling(random_point_result) = "query"
    /\ companions' = Append(companions,
                            [anchor |-> anchor,
                             none |-> random_point_result.none,
                             lat |-> random_point_result.lat,
                             lon |-> random_point_result.lon,
                             city_polygon |-> city_polygon])
    /\ random_points_on_land' =
          random_points_on_land + count_random_point(random_point_result).on_land
    /\ random_points_in_water' =
          random_points_in_water + count_random_point(random_point_result).in_water
    /\ anchor' = anchor + 1
    /\ epc' = "city"
    /\ UNCHANGED << selector_vars, land_vars, query_vars, explorer_file, selected_cities,
                    cities_results, random_point_result, city_polygon,
                    fp_attempt, sampler_calls, skipped_random_points >>

\* the loop over selected_cities is over
ExplorerFinish ==
    /\ epc = "city"
    /\ anchor > Len(selected_cities)
    /\ epc' = "done"
    /\ UNCHANGED << selector_vars, land_vars, query_vars, explorer_file, selected_cities,
                    anchor, cities_results, random_point_result, city_polygon,
                    fp_attempt, sampler_calls, skipped_random_points, random_points_on_land,
                    random_points_in_water, companions >>

NextExplorer ==
    \/ ExplorerSelect
    \/ ExplorerCityQuery
    \/ ExplorerSampleStandard
    \/ ExplorerFootprintAttempt
    \/ ExplorerFootprintFallback
    \/ ExplorerSkip
    \/ ExplorerCompanionQuery
    \/ ExplorerFinish

SpecExplorer == InitExplorer /\ [][NextExplorer]_vars

(* ------------------- what the claims C11..C20 use ---------------------- *)
Last(seq) == seq[Len(seq)]

\* the call of get_random_point_at_distance under way asked for land
EnsuringLand == spc # "idle" /\ sargs.ensure_on_land

\* is_point_on_land answers false whatever the point: the src/src copy
\* without a readable dataset file
OracleDegraded ==
    module_file = "src/src/sentinel_query.py" /\ ne_file.state # "present"

(* C11: with ensure_on_land, a call of get_random_point_at_distance whose
   land checks all answered false returns None; the call does not raise and
   a point it returns carries the flag on-land. *)
C11_NoLandNoPoint ==
    EnsuringLand =>
        /\ spc # "raised"
        /\ spc = "returned" =>
              /\ (\A i \in 1..Len(answers) : ~answers[i]) => sresult.none
              /\ ~sresult.none => sresult.is_on_land

\* every attempt of the budget was made against the degraded oracle, and
\* the call returned None
C11_Witness ==
    /\ EnsuringLand
    /\ OracleDegraded
    /\ spc = "returned"
    /\ sargs.max_attempts >= 1
    /\ Len(answers) = sargs.max_attempts
    /\ sresult.none

(* C12: with ensure_on_land, one call draws at most max_attempts candidates
   and makes one land check per candidate; no candidate is drawn after one
   has passed, and the point returned is the candidate that passed. *)
C12_StopsAtFirstPass ==
    EnsuringLand =>
        /\ Len(candidates) <= sargs.max_attempts
        /\ Len(answers) = Len(candidates)
        /\ \A i \in 1..(Len(answers) - 1) : ~answers[i]
        /\ (spc = "returned" /\ answers # << >> /\ Last(answers)) =>
              /\ ~sresult.none
              /\ sresult.lat = Last(candidates).lat
              /\ sresult.lon = Last(candidates).lon
        /\ (spc = "returned" /\ ~sresult.none) =>
              answers # << >> /\ Last(answers)

\* the first candidate passed and the call returned it with budget left
C12_Witness ==
    /\ EnsuringLand
    /\ spc = "returned"
    /\ ~sresult.none
    /\ Len(candidates) = 1
    /\ sargs.max_attempts >= 2

(* C13: when the footprint of the anchor's tile is supplied as exclusion
   polygon, the companion point queried for that anchor is never inside
   it. *)
C13_CompanionOutsideFootprint ==
    \A i \in 1..Len(companions) :
        companions[i].city_polygon.supplied =>
            ~within(companions[i], companions[i].city_polygon)

\* the sampler's last call for the anchor under way returned None
SamplerReturnedAbsent ==
    /\ epc = "decide"
    /\ sampler_calls[anchor] >= 1
    /\ random_point_result.none

(* C14: when the sampler has returned absent for an anchor, the caller
   skips the anchor: it counts one more skipped random point, issues no
   query for a companion point and goes on with the next selected city. *)
C14_AbsentAnchorIsSkipped ==
    [][ SamplerReturnedAbsent =>
          /\ skipped_random_points' = skipped_random_points + 1
          /\ companions' = companions
          /\ anchor' = anchor + 1
          /\ epc' = "city" ]_vars

\* the first anchor was skipped after the sampler had been called for it,
\* and the second anchor is being processed
C14_Witness ==
    /\ anchor = 2
    /\ epc \in {"standard", "footprint"}
    /\ sampler_calls[1] >= 1
    /\ skipped_random_points = 1
    /\ companions = << >>

(* C15: the selector has run before any sampling, and the sampler is
   called exactly once for each selected anchor, whatever the tile query
   of that anchor gave. *)
C15_OneSamplerCallPerAnchor ==
    /\ epc = "start" => sampler_calls = << >>
    /\ \A i \in 1..Len(selected_cities) :
          /\ i < anchor => sampler_calls[i] = 1
          /\ i > anchor => sampler_calls[i] = 0

(* C16: the cache _LAND_POLYGONS is populated by the first call of
   is_point_on_land and never changes afterwards: over any sequence of
   calls it is written at most once and the dataset file is consulted at
   most once, also when the file is not available. *)
C16_CachePopulatedOnce ==
    /\ cache_writes <= 1
    /\ provider_reads <= 1
    /\ last_check.made => LAND_POLYGONS.loaded

\* the point of the last call of is_point_on_land
CheckedPoint == [lat |-> last_check.lat, lon |-> last_check.lon]

\* some rectangle of the fallback set holds the point
InFallbackSet(point) ==
    \E i \in 1..Len(simplified_land_polygons) :
        within(point, simplified_land_polygons[i])

(* C17: when the dataset file is missing or cannot be loaded,
   is_point_on_land answers by containment in the ten fallback rectangles:
   a point inside one of them is reported on land. *)
C17_FallbackDecides ==
    (last_check.made /\ ne_file.state # "present") =>
        (last_check.answer <=> InFallbackSet(CheckedPoint))

\* during the last call the test of some row failed before the loop ended
FailureDuringCheck ==
    /\ last_check.made
    /\ LAND_POLYGONS.loaded
    /\ \E i \in 1..Len(LAND_POLYGONS.rows) :
          /\ LAND_POLYGONS.rows[i].kind = "bad"
          /\ \A j \in 1..(i - 1) :
                LAND_POLYGONS.rows[j].kind = "bad"
                \/ ~within(CheckedPoint, LAND_POLYGONS.rows[j])

(* C18 as stated: is_point_on_land never raises, and when the test of a
   polygon fails inside the call it returns false. *)
C18_FailureMeansNotOnLand ==
    last_check.made =>
        /\ ~last_check.raised
        /\ FailureDuringCheck => ~last_check.answer

(* C18 amended: is_point_on_land never raises; a polygon whose test fails
   is passed over, and the answer is true exactly when some polygon of the
   cached set whose test succeeds holds the point. *)
C18_FailedRowsArePassedOver ==
    last_check.made =>
        /\ ~last_check.raised
        /\ last_check.answer <=>
              /\ LAND_POLYGONS.loaded
              /\ \E i \in 1..Len(LAND_POLYGONS.rows) :
                    /\ LAND_POLYGONS.rows[i].kind = "rect"
                    /\ within(CheckedPoint, LAND_POLYGONS.rows[i])

\* a call met a row whose test failed and went on to the rows after it
C18_Witness ==
    /\ FailureDuringCheck
    /\ last_check.answer

(* C19: the longitude of every point _generate_random_point_at_distance
   returns lies in (-180, 180]. *)
C19_LongitudeNormalized ==
    \A i \in 1..Len(candidates) :
        0 - 180 < candidates[i].lon /\ candidates[i].lon <= 180

\* great-circle distance, in metres, from the anchor of the call to a point
FromAnchor(p) == haversine_distance(sargs.lat, sargs.lon, p.lat, p.lon)

\* within 0.1 per cent of the target distance
NearTarget(d) ==
    Abs(d - sargs.distance_m) <= sargs.distance_m \div 1000

(* C20 as stated: for every origin, bearing and distance the great-circle
   distance from the origin to the projected point is the target distance,
   within 0.1 per cent. *)
C20_RoundTrip ==
    \A i \in 1..Len(candidates) : NearTarget(FromAnchor(candidates[i]))

(* C20 amended: the same for every distance from 1 km up to 20000 km,
   just under half the circumference of the Earth. *)
C20_RoundTripWithinHalfway ==
    (1000 <= sargs.distance_m /\ sargs.distance_m <= 20000000) =>
        \A i \in 1..Len(candidates) : NearTarget(FromAnchor(candidates[i]))

\* a point projected across a pole, an arc of 100 degrees away
C20_Witness ==
    /\ sargs.distance_m = 100 * MetresPerDegree
    /\ \E i \in 1..Len(candidates) :
          /\ candidates[i].bearing = 0
          /\ candidates[i].lat = 80

(* ======================================================================= *)
(* Repair pass of src/city_selector.py, one iteration at a time.            *)
(* ======================================================================= *)
\* the selection as the greedy expansion handed it to the repair pass
GreedySelection == take(valid_cities, selected_indices)

\* the slots whose row an iteration changed
ChangedSlots ==
    { s \in Slots(improved_cities) :
        loc(improved_cities', s) # loc(improved_cities, s) }

\* the member of the closest pair that is not s
OtherMember(pr, s) == IF pr[1] = s THEN pr[2] ELSE pr[1]

(* C21: in a repair iteration whose closest pair is too close, the slot
   replaced is a member of that pair whose population is not larger than
   the other member's, and the other member keeps its slot: a member of
   strictly higher population is never the one replaced. *)
C21_LighterMemberIsEvicted ==
    [][ SwapAccepted =>
          /\ ChangedSlots # {}
          /\ \A s \in ChangedSlots :
                /\ s \in { PassPair[1], PassPair[2] }
                /\ loc(improved_cities, s).population
                      <= loc(improved_cities, OtherMember(PassPair, s)).population
                /\ loc(improved_cities', OtherMember(PassPair, s))
                      = loc(improved_cities, OtherMember(PassPair, s)) ]_vars

\* the first swap of a call replaced the first member of the closest pair,
\* which was strictly lighter than the second
C21_Witness ==
    /\ pc = "post"
    /\ swaps = 1
    /\ closest_pair # << >>
    /\ loc(GreedySelection, closest_pair[1]) # loc(improved_cities, closest_pair[1])
    /\ loc(GreedySelection, closest_pair[1]).population
          < loc(GreedySelection, closest_pair[2]).population

\* the rows of the pool that hold no candidate of the current selection
Unselected ==
    { k \in 1..Len(valid_cities) :
        \A i \in 1..Len(improved_cities) :
            improved_cities[i].city # valid_cities[k].city }

\* min distance of the pool row k to the selection without the slot that
\* the iteration is about to replace
PassDistance(k) ==
    candidate_min_distance(valid_cities[k], improved_cities, PassReplaceIdx)

\* the rows searched are exactly the unselected ones
SearchesUnselected == scanned(valid_cities, pp_selected) = Unselected

\* a replacement is found when an unselected row lies off every kept slot,
\* and it is an unselected row of the largest min distance
ChoosesFarthestUnselected ==
    /\ PassBest.found <=> \E k \in Unselected : PassDistance(k) > 0
    /\ PassBest.found =>
          /\ PassBest.k \in Unselected
          /\ \A k \in Unselected : PassDistance(PassBest.k) >= PassDistance(k)

(* C22: in each repair iteration the replacement is searched among exactly
   the candidates of the pool that are not selected at that moment, and
   the one chosen maximizes the minimum distance to the selection without
   the eviction candidate. *)
C22_ReplacementSearch ==
    (pc = "post" /\ PassTooClose) =>
        /\ SearchesUnselected
        /\ ChoosesFarthestUnselected

\* an iteration of the repair loop that found a pair closer than asked
ViolatingIteration == pc = "post" /\ PassTooClose

(* C23: a repair swap is applied only if the replacement's minimum distance
   to the rest of the selection strictly exceeds the violating distance;
   an iteration that applies none ends the loop at once and the selection
   is returned as it was before that iteration, the pair still too
   close. *)
C23_SwapOnlyIfStrictlyBetter ==
    [][ ViolatingIteration =>
          /\ \A s \in ChangedSlots :
                candidate_min_distance(loc(improved_cities', s), improved_cities, s)
                    > find_min_dist(improved_cities)
          /\ ChangedSlots = {} =>
                /\ pc' = "returned"
                /\ improved_cities' = improved_cities
                /\ find_min_dist(improved_cities') < min_distance_km * 1000 ]_vars

\* a call whose repair loop applied a swap and then refused the next one
C23_Witness ==
    /\ pc = "returned"
    /\ exit = "no_improvement"
    /\ swaps >= 1
    /\ find_min_dist(improved_cities) < min_distance_km * 1000

(* C24: a repair swap replaces the evicted candidate in place: the
   selection keeps its length and its index labels, exactly one slot gets
   another candidate, and every other slot keeps its content and its
   place. *)
C24_SwapInPlace ==
    [][ SwapAccepted =>
          /\ Len(improved_cities') = Len(improved_cities)
          /\ \E i \in 1..Len(improved_cities) :
                /\ improved_cities'[i].city # improved_cities[i].city
                /\ improved_cities'[i].idx = improved_cities[i].idx
                /\ \A j \in 1..Len(improved_cities) :
                      j # i => improved_cities'[j] = improved_cities[j] ]_vars

\* a returned selection in which a swap replaced a slot before the last one
\* and the slots after it are as the greedy expansion left them
C24_Witness ==
    /\ pc = "returned"
    /\ swaps = 1
    /\ Len(improved_cities) >= 3
    /\ \E i \in 1..(Len(improved_cities) - 1) :
          /\ improved_cities[i] # GreedySelection[i]
          /\ \A j \in (i + 1)..Len(improved_cities) :
                improved_cities[j] = GreedySelection[j]

(* ======================================================================= *)
(* sentinel_query and the explorer, continued.                              *)
(* ======================================================================= *)
\* the polygon set lines 438-448 of src/sentinel_query.py put in use: the
\* rows of the dataset when it loads, the ten rectangles otherwise
ActiveSet ==
    IF ne_file.state = "present" THEN ne_file.rows
    ELSE simplified_land_polygons

(* C25: is_point_on_land returns true if and only if the point lies within
   at least one polygon of the active polygon set, where a polygon whose
   containment test fails counts as not containing the point. *)
C25_TrueIffWithinActiveSet ==
    last_check.made =>
        (last_check.answer <=>
            \E i \in 1..Len(ActiveSet) :
                /\ ActiveSet[i].kind = "rect"
                /\ within(CheckedPoint, ActiveSet[i]))

\* a call of get_random_point_at_distance has returned
SamplerReturned == spc = "returned"

(* C26: with ensure_on_land false, get_random_point_at_distance draws one
   point, asks is_point_on_land once and returns that point with the
   answer as its on-land flag, whatever max_attempts is; it returns None
   only when ensure_on_land is true. *)
C26_UncheckedAlwaysReturnsAPoint ==
    SamplerReturned =>
        /\ ~sargs.ensure_on_land =>
              /\ Len(candidates) = 1
              /\ Len(answers) = 1
              /\ ~sresult.none
              /\ sresult.lat = candidates[1].lat
              /\ sresult.lon = candidates[1].lon
              /\ sresult.is_on_land = answers[1]
        /\ sresult.none => sargs.ensure_on_land

\* a call with ensure_on_land false and max_attempts 0 returned a point
\* that is_point_on_land reported to be in water
C26_Witness ==
    /\ SamplerReturned
    /\ ~sargs.ensure_on_land
    /\ sargs.max_attempts = 0
    /\ ~sresult.none
    /\ ~sresult.is_on_land

\* the loop of src/src lines 263-281 is running for the current anchor
InFootprintLoop == epc = "footprint"

(* C27: the footprint that constrains the companion point of an anchor is
   the footprint of the tile resolved for that same anchor in the current
   iteration; when the anchor's own query fails or finds nothing, the
   footprint recorded for an earlier anchor is not used for it. *)
C27_FootprintOfTheSameAnchor ==
    InFootprintLoop =>
        /\ cities_results # << >>
        /\ Last(cities_results).city_lon = selected_cities[anchor].lon
        /\ city_polygon = Last(cities_results).footprint

\* one pass of the footprint loop that obtained a point
FootprintTest ==
    /\ InFootprintLoop
    /\ fp_attempt < FootprintAttempts
    /\ ~random_point_result'.none

(* C28: the tile-exclusion test takes the candidate and the footprint in
   the same coordinate order: a candidate is accepted as outside the city
   tile exactly when its position lies outside the footprint. *)
C28_SameCoordinateOrder ==
    [][ FootprintTest =>
          (epc' = "decide" <=> ~within(random_point_result', city_polygon)) ]_vars

\* the anchors whose iteration of the loop over selected_cities is over
Processed == anchor - 1

(* C29: after any number k of anchors, random_points_on_land +
   random_points_in_water + skipped_random_points = k: every iteration adds
   one to exactly one of the three counters, and on_land or in_water only
   for an anchor for which a companion point was obtained. *)
C29_CountersAddUp ==
    epc \notin {"unused", "start"} =>
        /\ random_points_on_land + random_points_in_water
              + skipped_random_points = Processed
        /\ random_points_on_land + random_points_in_water = Len(companions)
        /\ \A i \in 1..Len(companions) : ~companions[i].none

\* a run over two anchors, one skipped and one with a companion point
C29_Witness ==
    /\ epc = "done"
    /\ Len(selected_cities) = 2
    /\ skipped_random_points = 1
    /\ random_points_on_land = 1

(* ======================================================================= *)
(* sentinel_query: query_sentinel2_by_coordinates, the catalogue request   *)
(* of each quarter and its retries (src lines 184-233, src/src lines       *)
(* 63-147; the loop is the same in both copies).                           *)
(* ======================================================================= *)
\* line 211
max_retries == 2

\* response.status_code: success, the two authentication errors, and an
\* error of another kind
StatusCodes == {200, 401, 403, 500}

InitQuery ==
    /\ SelectorUnused
    /\ LandUnused
    /\ ExplorerUnused
    /\ qpc = "start"
    /\ quarter = 0
    /\ retry = 0
    /\ status_code = 0
    /\ requests_sent = [q \in 1..Len(quarters) |-> 0]
    /\ events = << >>

\* line 219: the condition under which the token is refreshed
should_refresh_any_error(code, r) == code # 200 /\ r < max_retries

should_refresh(code, r) == code \in {401, 403} /\ r < max_retries

\* lines 184-188: the token is loaded; without one the call returns None
QueryLoadToken ==
    /\ qpc = "start"
    /\ \E token \in BOOLEAN :
          IF token THEN qpc' = "send" /\ quarter' = 1
          ELSE qpc' = "returned_none" /\ quarter' = quarter
    /\ UNCHANGED << selector_vars, land_vars, explorer_vars, retry,
                    status_code, requests_sent, events >>

\* line 213: requests.get, and the status code of the response
QuerySend ==
    /\ qpc = "send"
    /\ \E code \in StatusCodes :
          /\ status_code' = code
          /\ events' = Append(events, [kind |-> "request", code |-> code,
                                       ok |-> code = 200])
    /\ requests_sent' = [requests_sent EXCEPT ![quarter] = @ + 1]
    /\ qpc' = "responded"
    /\ UNCHANGED << selector_vars, land_vars, explorer_vars, quarter, retry >>

\* lines 219-230: authentication error with retries left, the token is
\* refreshed; the loop goes round when that worked and ends when it did not
QueryRefresh ==
    /\ qpc = "responded"
    /\ should_refresh(status_code, retry)
    /\ \E new_token_data \in BOOLEAN :
          /\ events' = Append(events, [kind |-> "refresh", code |-> 0,
                                       ok |-> new_token_data])
          /\ IF new_token_data
             THEN qpc' = "send" /\ retry' = retry + 1
             ELSE qpc' = "process" /\ retry' = retry
    /\ UNCHANGED << selector_vars, land_vars, explorer_vars, quarter,
                    status_code, requests_sent >>

\* lines 231-233: success, or an error that is not retried
QueryBreak ==
    /\ qpc = "responded"
    /\ ~should_refresh(status_code, retry)
    /\ qpc' = "process"
    /\ UNCHANGED << selector_vars, land_vars, explorer_vars, quarter, retry,
                    status_code, requests_sent, events >>

\* lines 235 and following, then line 199: the response is processed and the
\* loop goes on to the next quarter
QueryNextQuarter ==
    /\ qpc = "process"
    /\ quarter < Len(quarters)
    /\ quarter' = quarter + 1
    /\ retry' = 0
    /\ events' = << >>
    /\ qpc' = "send"
    /\ UNCHANGED << selector_vars, land_vars, explorer_vars, status_code,
                    requests_sent >>

\* the last quarter is done, the result is returned
QueryReturn ==
    /\ qpc = "process"
    /\ quarter >= Len(quarters)
    /\ qpc' = "returned"
    /\ UNCHANGED << selector_vars, land_vars, explorer_vars, quarter, retry,
                    status_code, requests_sent, events >>

NextQuery ==
    \/ QueryLoadToken
    \/ QuerySend
    \/ QueryRefresh
    \/ QueryBreak
    \/ QueryNextQuarter
    \/ QueryReturn

SpecQuery == InitQuery /\ [][NextQuery]_vars

\* event i of the quarter under way is a catalogue request
IsRequest(i) == events[i].kind = "request"

\* event i is a token refresh that failed
IsFailedRefresh(i) == events[i].kind = "refresh" /\ ~events[i].ok

(* C30: in query_sentinel2_by_coordinates at most 3 catalogue requests are
   sent for a quarter (one plus max_retries = 2); a request is repeated
   only after a response 401 or 403 followed by a successful token
   refresh, and after a failed refresh no further request is sent for that
   quarter. *)
C30_RetriesPerQuarter ==
    /\ \A q \in 1..Len(quarters) : requests_sent[q] <= 3
    /\ quarter >= 1 =>
          requests_sent[quarter]
              = Cardinality({ i \in 1..Len(events) : IsRequest(i) })
    /\ \A i \in 2..Len(events) :
          IsRequest(i) =>
              /\ i >= 3
              /\ events[i - 1].kind = "refresh" /\ events[i - 1].ok
              /\ IsRequest(i - 2) /\ events[i - 2].code \in {401, 403}
    /\ \A i \in 1..Len(events) : IsFailedRefresh(i) => i = Len(events)

\* the call has returned; the last quarter took three requests, and earlier
\* quarters ended after one request and after two
C30_Witness ==
    /\ qpc = "returned"
    /\ requests_sent[Len(quarters)] = 3
    /\ \E q \in 1..(Len(quarters) - 1) : requests_sent[q] = 1
    /\ \E q \in 1..(Len(quarters) - 1) : requests_sent[q] = 2

====
